---- MODULE Spec2Model ----
(***************************************************************************)
(* A model of python/pyspark/ml/image.py: the _ImageSchema accessor, its   *)
(* module-level singleton ImageSchema, the four lazily cached metadata     *)
(* properties, the two conversions toNDArray / toImage, readImages and the *)
(* constructor replacement that forbids further instances.                 *)
(*                                                                         *)
(* Python values are tagged records ([t |-> "None"], [t |-> "int", ...])   *)
(* so that values of different Python types can be compared.  Byte        *)
(* buffers live in a small heap (bufs) and arrays, rows and views hold     *)
(* references into it, so that aliasing is something the model can show.   *)
(***************************************************************************)
EXTENDS Integers, Sequences, FiniteSets, TLC

(***************************************************************************)
(* Bounds of the model.                                                    *)
(***************************************************************************)
\* height and width of the caller's arrays range over 0..MaxDim
MaxDim == 2
\* the channel dimension of the caller's arrays ranges over 0..MaxChannels
MaxChannels == 5
\* in-place element writes the caller makes to one array / row
MaxWrites == 1
\* engine round trips counted per metadata field before the model stops
MaxFetches == 3
\* instances of _ImageSchema counted before the model stops
MaxInstances == 3
\* concurrent reader threads of the threaded specification
NThreads == 2

VARIABLES
    pc,           \* module import position: "l186", "l192" or "loaded"
    initFn,       \* the function _ImageSchema.__init__ is bound to
    ImageSchema,  \* the singleton's attributes (NoInstance before line 186)
    nInstances,   \* _ImageSchema instances constructed so far
    lastObj,      \* attributes of the object of the last construction attempt
    session,      \* SparkContext._active_spark_context is not None
    engVer,       \* which engine build answers the metadata calls
    engFields,    \* the field names the engine's imageFields() reports
    fetches,      \* per field: engine round trips that returned a value
    first,        \* per field: the value the first successful read returned
    bufs,         \* heap: buffer id -> sequence of stored elements
    arr,          \* the caller's input array (None when there is none)
    row,          \* the Row the last successful toImage returned (or None)
    view,         \* the ndarray the last successful toNDArray returned
    nWrites,      \* in-place writes made since the array was created
    last,         \* the last call: operation, argument, error, result
    tpc,          \* threaded reads: each thread's position in the property
    tfield,       \* threaded reads: the property each thread reads
    tlocal,       \* threaded reads: the value a thread fetched, not yet stored
    tret          \* threaded reads: the value a thread's read returned

vars == <<pc, initFn, ImageSchema, nInstances, lastObj, session, engVer,
          engFields, fetches, first, bufs, arr, row, view, nWrites, last,
          tpc, tfield, tlocal, tret>>

seqVars == <<pc, initFn, ImageSchema, nInstances, lastObj, session, engVer,
             engFields, fetches, first, bufs, arr, row, view, nWrites, last>>

threadVars == <<tpc, tfield, tlocal, tret>>

(***************************************************************************)
(* Python values.                                                          *)
(***************************************************************************)
None == [t |-> "None"]
PyInt(n) == [t |-> "int", i |-> n]
PyStr(s) == [t |-> "str", s |-> s]
PyList(l) == [t |-> "list", l |-> l]
PyDict(d) == [t |-> "dict", d |-> d]
\* a bytearray object: a reference to its buffer in the heap
PyBytes(b) == [t |-> "bytearray", b |-> b]

NoErr == "ok"
\* an object whose attribute was never assigned
Absent == [t |-> "absent"]
NoInstance == [t |-> "NoInstance"]

Fields == {"_imageSchema", "_ocvTypes", "_imageFields", "_undefinedImageType"}

(***************************************************************************)
(* The external engine, reached through SparkContext._active_spark_context *)
(* and its _jvm gateway.  It is not part of this source file: its answers  *)
(* are modelled from the specification's description of the interface.     *)
(***************************************************************************)
EngineVersions == {1, 2}

\* org.apache.spark.ml.image.ImageSchema.imageSchema().json()
JvmImageSchemaJson ==
    [type |-> "struct",
     fields |-> << [name |-> "image", type |-> "struct", nullable |-> TRUE] >>]

\* org.apache.spark.ml.image.ImageSchema._ocvTypes(): name -> integer code
JvmOcvTypes(ver) ==
    IF ver = 1
    THEN [n \in {"Undefined", "CV_8UC1", "CV_8UC3", "CV_8UC4"} |->
            CASE n = "Undefined" -> 0 - 1
              [] n = "CV_8UC1" -> 0
              [] n = "CV_8UC3" -> 16
              [] n = "CV_8UC4" -> 24]
    ELSE [n \in {"Undefined", "CV_8UC1", "CV_8UC3", "CV_8UC4"} |->
            CASE n = "Undefined" -> 0 - 1
              [] n = "CV_8UC1" -> 1
              [] n = "CV_8UC3" -> 17
              [] n = "CV_8UC4" -> 25]

\* the schema order of an image row's fields
SchemaOrder == <<"origin", "height", "width", "nChannels", "mode", "data">>
\* the same six names sorted by name
AlphabeticalOrder == <<"data", "height", "mode", "nChannels", "origin", "width">>
\* the six names with height and width exchanged
SwappedOrder == <<"origin", "width", "height", "nChannels", "mode", "data">>

\* org.apache.spark.ml.image.ImageSchema.imageFields()
JvmImageFields == engFields

\* org.apache.spark.ml.image.ImageSchema.undefinedImageType()
JvmUndefinedImageType == "Undefined"

\* SparkContext._active_spark_context
ActiveSparkContext == IF session THEN [t |-> "SparkContext", ver |-> engVer] ELSE None

\* pyspark.sql.types._parse_datatype_json_string: JSON document -> StructType
_parse_datatype_json_string(json) ==
    [t |-> "StructType",
     names |-> [n \in 1..Len(json.fields) |-> json.fields[n].name],
     nullable |-> [n \in 1..Len(json.fields) |-> json.fields[n].nullable]]

(***************************************************************************)
(* _ImageSchema: constructor and the four lazily cached properties.        *)
(***************************************************************************)
\* a new object before __init__ has run: no attribute is set
NewObject == [f \in Fields |-> Absent]

\* _ImageSchema.__init__ as the class body defines it (lines 40-44)
__init__(self) ==
    [self |-> [f \in Fields |-> None], err |-> NoErr]

\* faulty variant: the replacement initializes the object and returns
_disallow_instance_initializes(self) ==
    [self |-> [f \in Fields |-> None], err |-> NoErr]

\* the replacement installed at line 192
_disallow_instance(self) ==
    [self |-> self, err |-> "RuntimeError"]

\* _ImageSchema(): allocate, then run whatever __init__ is bound to
Construct ==
    IF initFn = "__init__" THEN __init__(NewObject) ELSE _disallow_instance(NewObject)

\* faulty variant: the cached value is never looked at
IsUnsetAlways(self, f) == TRUE

\* the test `self._x is None` that opens each property
IsUnset(self, f) == self[f] = None

\* the right-hand side of each property's assignment: the engine round trip
\* and the conversion of its answer (parse / dict() / list() / as is)
Fetch(ctx, f) ==
    CASE f = "_imageSchema" -> _parse_datatype_json_string(JvmImageSchemaJson)
      [] f = "_ocvTypes" -> PyDict(JvmOcvTypes(ctx.ver))
      [] f = "_imageFields" -> PyList(JvmImageFields)
      [] f = "_undefinedImageType" -> PyStr(JvmUndefinedImageType)

\* faulty variant: the fetched value is not kept on the object
StoreNothing(self, f, v) == self

\* the assignment `self._x = ...`
Store(self, f, v) == [self EXCEPT ![f] = v]

\* faulty variant: the call returns the value it fetched itself
ReturnLocal(self, f, local) == local

\* the closing `return self._x`; local is the value this call fetched (None
\* when it fetched nothing), which the code does not use for the result
Return(self, f, local) == self[f]

\* faulty variant: the active context is dereferenced before the cache test
LazyPropertyCtxFirst(self, f) ==
    LET ctx == ActiveSparkContext IN
    IF ctx = None
    THEN [self |-> self, err |-> "AttributeError", ret |-> None,
          tried |-> {f}, fetched |-> {}]
    ELSE IF IsUnset(self, f)
    THEN LET v == Fetch(ctx, f)
             s == Store(self, f, v)
         IN [self |-> s, err |-> NoErr, ret |-> Return(s, f, v),
             tried |-> {f}, fetched |-> {f}]
    ELSE [self |-> self, err |-> NoErr, ret |-> Return(self, f, None),
          tried |-> {}, fetched |-> {}]

\* One property read, run to completion.  Result: the object afterwards, the
\* error raised (NoErr for none), the value returned, the fields for which
\* an engine round trip was attempted and those for which it returned.
LazyProperty(self, f) ==
    IF IsUnset(self, f)
    THEN LET ctx == ActiveSparkContext IN
         IF ctx = None
         THEN [self |-> self, err |-> "AttributeError", ret |-> None,
               tried |-> {f}, fetched |-> {}]
         ELSE LET v == Fetch(ctx, f)
                  s == Store(self, f, v)
              IN [self |-> s, err |-> NoErr, ret |-> Return(s, f, v),
                  tried |-> {f}, fetched |-> {f}]
    ELSE [self |-> self, err |-> NoErr, ret |-> Return(self, f, None),
          tried |-> {}, fetched |-> {}]

imageSchema(self) == LazyProperty(self, "_imageSchema")
ocvTypes(self) == LazyProperty(self, "_ocvTypes")
imageFields(self) == LazyProperty(self, "_imageFields")
undefinedImageType(self) == LazyProperty(self, "_undefinedImageType")

Property(self, f) ==
    CASE f = "_imageSchema" -> imageSchema(self)
      [] f = "_ocvTypes" -> ocvTypes(self)
      [] f = "_imageFields" -> imageFields(self)
      [] f = "_undefinedImageType" -> undefinedImageType(self)

(***************************************************************************)
(* numpy arrays.  An array is a shape, its strides (in elements) and a     *)
(* reference to the buffer that holds its elements.                        *)
(***************************************************************************)
ArrBuf == "arrbuf"
RowBuf == "rowbuf"

RECURSIVE Prod(_)
Prod(s) == IF s = <<>> THEN 1 ELSE Head(s) * Prod(Tail(s))

\* the strides of a C-contiguous array of this shape
CStrides(shape) ==
    [d \in 1..Len(shape) |-> Prod(SubSeq(shape, d + 1, Len(shape)))]

NDArray(shape, strides, buf, dtype) ==
    [t |-> "ndarray", shape |-> shape, strides |-> strides, buf |-> buf,
     dtype |-> dtype]

\* array.ndim
Ndim(a) == Len(a.shape)

\* position in the buffer (from 1) of element (i, j, k) of a 3-d array
Offset(a, i, j, k) ==
    i * a.strides[1] + j * a.strides[2] + k * a.strides[3] + 1

\* a[i, j, k] read through the array's strides
At(heap, a, i, j, k) == heap[a.buf][Offset(a, i, j, k)]

\* ndarray.astype(dtype=np.uint8) on one element: reduction modulo 2^8
AsUint8(x) == x % 256

\* array.astype(dtype=np.uint8).ravel() of a 3-d array: its elements cast
\* to unsigned 8-bit, laid out in row-major (C) order
RavelUint8(heap, a) ==
    LET w == a.shape[2]
        c == a.shape[3]
    IN [p \in 1..Prod(a.shape) |->
          AsUint8(At(heap, a, (p - 1) \div (w * c), ((p - 1) \div c) % w,
                     (p - 1) % c))]

(***************************************************************************)
(* pyspark.sql.types.Row as _create_row builds it: a tuple of values with  *)
(* the field names attached by position.                                   *)
(***************************************************************************)
\* faulty variant: Row(name=value, ...), which orders the fields by name
_create_row_by_name(fields, values) ==
    LET present == SelectSeq(AlphabeticalOrder,
                             LAMBDA n : \E q \in 1..Len(fields.l) : fields.l[q] = n)
        pos(n) == CHOOSE q \in 1..Len(fields.l) : fields.l[q] = n
    IN [t |-> "Row", fields |-> present,
        vals |-> [q \in 1..Len(present) |-> values[pos(present[q])]]]

_create_row(fields, values) ==
    [t |-> "Row", fields |-> fields.l, vals |-> values]

\* Row.__getattr__: the value at the first position whose name is `name`
RowGet(r, name) ==
    IF \E n \in 1..Len(r.fields) : r.fields[n] = name
    THEN LET n == CHOOSE m \in 1..Len(r.fields) :
                     /\ r.fields[m] = name
                     /\ \A q \in 1..(m - 1) : r.fields[q] # name
         IN IF n <= Len(r.vals) THEN r.vals[n] ELSE [t |-> "AttributeError"]
    ELSE [t |-> "AttributeError"]

(***************************************************************************)
(* toNDArray (lines 107-124).  Result: the error raised and the array      *)
(* returned, a view whose buffer is the row's own bytearray.               *)
(***************************************************************************)
\* faulty variant: the row stride leaves out the channel count
ViewStridesNoChannels(height, width, nChannels) == <<width, nChannels, 1>>

\* line 124: the strides handed to np.ndarray
ViewStrides(height, width, nChannels) == <<width * nChannels, nChannels, 1>>

toNDArray(heap, image) ==
    LET height == RowGet(image, "height")
        width == RowGet(image, "width")
        nChannels == RowGet(image, "nChannels")
        data == RowGet(image, "data")
    IN IF \E x \in {height, width, nChannels, data} : x.t = "AttributeError"
       THEN [err |-> "AttributeError", ret |-> None]
       ELSE IF \/ height.t # "int" \/ width.t # "int" \/ nChannels.t # "int"
               \/ data.t # "bytearray"
       THEN [err |-> "TypeError", ret |-> None]
       ELSE IF height.i < 0 \/ width.i < 0 \/ nChannels.i < 0
       THEN [err |-> "ValueError", ret |-> None]
       ELSE LET shape == <<height.i, width.i, nChannels.i>>
                strides == ViewStrides(height.i, width.i, nChannels.i)
                \* the last buffer position the view can address
                extent == (height.i - 1) * strides[1] + (width.i - 1) * strides[2]
                          + (nChannels.i - 1) * strides[3] + 1
                \* numpy takes an empty buffer to be as large as the shape asks
                numbytes == IF Len(heap[data.b]) = 0 THEN Prod(shape)
                            ELSE Len(heap[data.b])
            IN IF Prod(shape) > 0 /\ extent > numbytes
               THEN [err |-> "ValueError", ret |-> None]
               ELSE [err |-> NoErr,
                     ret |-> NDArray(shape, strides, data.b, "uint8")]

(***************************************************************************)
(* toImage (lines 126-154).  self is the singleton, which is also the      *)
(* module-level name ImageSchema that line 140 reads ocvTypes from.        *)
(* Result: the singleton afterwards, the error, the Row returned, the      *)
(* buffer of its bytearray and the bytes put there, and the engine round   *)
(* trips.                                                                  *)
(***************************************************************************)
ToImageFail(self, err, tried, fetched) ==
    [self |-> self, err |-> err, ret |-> None, buf |-> "none", data |-> <<>>,
     tried |-> tried, fetched |-> fetched]

\* faulty variant: four channels are given the three-channel code and
\* two channels are accepted
ModeOfShifted(types, nChannels) ==
    LET key == CASE nChannels = 1 -> "CV_8UC1"
                 [] nChannels = 2 -> "CV_8UC3"
                 [] nChannels = 3 -> "CV_8UC3"
                 [] nChannels = 4 -> "CV_8UC3"
                 [] OTHER -> "none"
    IN IF key = "none" THEN [err |-> "ValueError: Invalid number of channels"]
       ELSE IF key \notin DOMAIN types.d THEN [err |-> "KeyError"]
       ELSE [err |-> NoErr, mode |-> types.d[key]]

\* lines 141-148: the mode for a channel count, or the error raised
ModeOf(types, nChannels) ==
    LET key == CASE nChannels = 1 -> "CV_8UC1"
                 [] nChannels = 3 -> "CV_8UC3"
                 [] nChannels = 4 -> "CV_8UC4"
                 [] OTHER -> "none"
    IN IF key = "none" THEN [err |-> "ValueError: Invalid number of channels"]
       ELSE IF key \notin DOMAIN types.d THEN [err |-> "KeyError"]
       ELSE [err |-> NoErr, mode |-> types.d[key]]

\* faulty variant: the row keeps the input array's own buffer
DataBufferAliased(array) == array.buf

\* line 149: the buffer the new bytearray refers to
DataBuffer(array) == RowBuf

\* faulty variant: the values are listed in the order of their names
RowValuesByName(origin, height, width, nChannels, mode, data) ==
    <<data, PyInt(height), PyInt(mode), PyInt(nChannels), PyStr(origin),
      PyInt(width)>>

\* line 154: the list of values handed to _create_row
RowValues(origin, height, width, nChannels, mode, data) ==
    <<PyStr(origin), PyInt(height), PyInt(width), PyInt(nChannels),
      PyInt(mode), data>>

\* faulty variant: only arrays of fewer than 3 dimensions are rejected
InvalidShapeOnlyLow(array) == Ndim(array) < 3

\* line 137: the test that rejects the array
InvalidShape(array) == Ndim(array) # 3

toImage(heap, self, array, origin) ==
    IF InvalidShape(array)
    THEN ToImageFail(self, "ValueError: Invalid array shape", {}, {})
    ELSE
    LET height == array.shape[1]
        width == array.shape[2]
        nChannels == array.shape[3]
        r1 == ocvTypes(self)
    IN IF r1.err # NoErr
       THEN ToImageFail(r1.self, r1.err, r1.tried, r1.fetched)
       ELSE
       LET m == ModeOf(r1.ret, nChannels) IN
       IF m.err # NoErr
       THEN ToImageFail(r1.self, m.err, r1.tried, r1.fetched)
       ELSE
       LET bytes == RavelUint8(heap, array)
           data == PyBytes(DataBuffer(array))
           r2 == imageFields(r1.self)
       IN IF r2.err # NoErr
          THEN ToImageFail(r2.self, r2.err, r1.tried \cup r2.tried,
                           r1.fetched \cup r2.fetched)
          ELSE [self |-> r2.self, err |-> NoErr,
                ret |-> _create_row(r2.ret,
                                    RowValues(origin, height, width, nChannels,
                                              m.mode, data)),
                buf |-> data.b,
                data |-> bytes,
                tried |-> r1.tried \cup r2.tried,
                fetched |-> r1.fetched \cup r2.fetched]

(***************************************************************************)
(* readImages (lines 156-183): one round trip to the engine.               *)
(***************************************************************************)
readImages(path) ==
    LET ctx == ActiveSparkContext IN
    IF ctx = None THEN [err |-> "AttributeError", ret |-> None]
    ELSE [err |-> NoErr, ret |-> [t |-> "DataFrame", path |-> path]]

(***************************************************************************)
(* The caller's inputs.                                                    *)
(***************************************************************************)
Dims == 0..MaxDim
Channels == 0..MaxChannels
\* every 3-d shape within the bounds
Shapes == {<<h, w, c>> : h \in Dims, w \in Dims, c \in Channels}
\* one 3-d shape per channel count, and a 2-d and a 4-d shape
ApiShapes ==
    {<<1, MaxDim, c>> : c \in Channels} \cup {<<1, MaxDim>>, <<1, 1, MaxDim, 3>>}
\* arrays are filled with consecutive integers from a base (np.arange + base);
\* both bases make some element fall outside 0..255
Bases == {0 - 1, 250}
Origins == {"", "file:/img.png"}
WriteValues == {100}
\* in-place writes go to the first or the last element of a buffer; an
\* empty buffer has no element to write (indexing it raises IndexError)
WritePositions(n) == {p \in {1, n} : 1 <= p /\ p <= n}
Paths == {"/kittens"}
\* the orders in which the engine's imageFields() may report the names
FieldOrders == {SchemaOrder, AlphabeticalOrder, SwappedOrder}

Call(op, arg, err, ret, tried) ==
    [op |-> op, arg |-> arg, err |-> err, ret |-> ret, tried |-> tried]

Count(n, fetched) == [f \in Fields |-> IF f \in fetched THEN n[f] + 1 ELSE n[f]]

(***************************************************************************)
(* Module import: line 186 creates the singleton, line 192 replaces        *)
(* _ImageSchema.__init__.                                                  *)
(***************************************************************************)
Load186 ==
    /\ pc = "l186"
    /\ LET r == Construct IN
       /\ ImageSchema' = IF r.err = NoErr THEN r.self ELSE NoInstance
       /\ lastObj' = r.self
       /\ nInstances' = IF r.err = NoErr THEN nInstances + 1 ELSE nInstances
       /\ last' = Call("import", "", r.err, None, {})
    /\ pc' = "l192"
    /\ UNCHANGED <<initFn, session, engVer, engFields, fetches, first, bufs,
                   arr, row, view, nWrites>>
    /\ UNCHANGED threadVars

Load192 ==
    /\ pc = "l192"
    /\ initFn' = "_disallow_instance"
    /\ pc' = "loaded"
    /\ UNCHANGED <<ImageSchema, nInstances, lastObj, session, engVer, engFields,
                   fetches, first, bufs, arr, row, view, nWrites, last>>
    /\ UNCHANGED threadVars

(***************************************************************************)
(* Calls a client makes once the module is imported.                       *)
(***************************************************************************)
\* _ImageSchema()
NewInstance ==
    /\ pc = "loaded"
    /\ nInstances < MaxInstances
    /\ LET r == Construct IN
       /\ lastObj' = r.self
       /\ nInstances' = IF r.err = NoErr THEN nInstances + 1 ELSE nInstances
       /\ last' = Call("construct", "", r.err, None, {})
    /\ UNCHANGED <<pc, initFn, ImageSchema, session, engVer, engFields,
                   fetches, first, bufs, arr, row, view, nWrites>>
    /\ UNCHANGED threadVars

\* ImageSchema.imageSchema, .ocvTypes, .imageFields, .undefinedImageType
ReadProperty(f) ==
    /\ pc = "loaded"
    /\ fetches[f] < MaxFetches
    /\ LET r == Property(ImageSchema, f) IN
       /\ ImageSchema' = r.self
       /\ fetches' = Count(fetches, r.fetched)
       /\ first' = IF r.err = NoErr /\ first[f] = None
                   THEN [first EXCEPT ![f] = r.ret] ELSE first
       /\ last' = Call("read", f, r.err, r.ret, r.tried)
    /\ UNCHANGED <<pc, initFn, nInstances, lastObj, session, engVer, engFields,
                   bufs, arr, row, view, nWrites>>
    /\ UNCHANGED threadVars

\* the caller builds an array: np.arange(size).reshape(shape) + base
NewArray(shape, base) ==
    /\ pc = "loaded"
    /\ arr' = NDArray(shape, CStrides(shape), ArrBuf, "int64")
    /\ bufs' = [b \in {ArrBuf, RowBuf} |->
                  IF b = ArrBuf THEN [p \in 1..Prod(shape) |-> base + p - 1]
                  ELSE <<>>]
    /\ row' = None
    /\ view' = None
    /\ nWrites' = 0
    /\ last' = Call("newArray", "", NoErr, None, {})
    /\ UNCHANGED <<pc, initFn, ImageSchema, nInstances, lastObj, session, engVer,
                   engFields, fetches, first>>
    /\ UNCHANGED threadVars

\* ImageSchema.toImage(arr, origin)
ToImage(origin) ==
    /\ pc = "loaded"
    /\ arr # None
    /\ \A f \in Fields : fetches[f] < MaxFetches
    /\ LET r == toImage(bufs, ImageSchema, arr, origin) IN
       /\ ImageSchema' = r.self
       /\ fetches' = Count(fetches, r.fetched)
       /\ first' = [f \in Fields |->
                      IF first[f] = None /\ f \in r.fetched THEN r.self[f]
                      ELSE first[f]]
       /\ last' = Call("toImage", origin, r.err, r.ret, r.tried)
       /\ IF r.err = NoErr
          THEN /\ row' = r.ret
               /\ view' = None
               /\ bufs' = [bufs EXCEPT ![r.buf] = r.data]
          ELSE UNCHANGED <<row, view, bufs>>
    /\ UNCHANGED <<pc, initFn, nInstances, lastObj, session, engVer, engFields,
                   arr, nWrites>>
    /\ UNCHANGED threadVars

\* ImageSchema.toNDArray(row)
ToNDArray ==
    /\ pc = "loaded"
    /\ row # None
    /\ LET r == toNDArray(bufs, row) IN
       /\ view' = IF r.err = NoErr THEN r.ret ELSE view
       /\ last' = Call("toNDArray", "", r.err, r.ret, {})
    /\ UNCHANGED <<pc, initFn, ImageSchema, nInstances, lastObj, session, engVer,
                   engFields, fetches, first, bufs, arr, row, nWrites>>
    /\ UNCHANGED threadVars

\* the caller writes one element of its array in place: arr.flat[p - 1] = v
WriteArray(p, v) ==
    /\ pc = "loaded"
    /\ arr # None
    /\ nWrites < MaxWrites
    /\ p \in WritePositions(Len(bufs[arr.buf]))
    /\ bufs' = [bufs EXCEPT ![arr.buf][p] = v]
    /\ nWrites' = nWrites + 1
    /\ last' = Call("writeArray", "", NoErr, None, {})
    /\ UNCHANGED <<pc, initFn, ImageSchema, nInstances, lastObj, session, engVer,
                   engFields, fetches, first, arr, row, view>>
    /\ UNCHANGED threadVars

\* the caller writes one byte of the row's bytearray: row[5][p - 1] = v
WriteRow(p, v) ==
    /\ pc = "loaded"
    /\ row # None
    /\ nWrites < MaxWrites
    /\ p \in WritePositions(Len(bufs[row.vals[6].b]))
    /\ bufs' = [bufs EXCEPT ![row.vals[6].b][p] = v]
    /\ nWrites' = nWrites + 1
    /\ last' = Call("writeRow", "", NoErr, None, {})
    /\ UNCHANGED <<pc, initFn, ImageSchema, nInstances, lastObj, session, engVer,
                   engFields, fetches, first, arr, row, view>>
    /\ UNCHANGED threadVars

\* the caller writes through the array toNDArray returned: view[i, j, k] = v
WriteView(i, j, k, v) ==
    /\ pc = "loaded"
    /\ view # None
    /\ nWrites < MaxWrites
    /\ i \in 0..(view.shape[1] - 1)
    /\ j \in 0..(view.shape[2] - 1)
    /\ k \in 0..(view.shape[3] - 1)
    /\ bufs' = [bufs EXCEPT ![view.buf][Offset(view, i, j, k)] = v]
    /\ nWrites' = nWrites + 1
    /\ last' = Call("writeView", "", NoErr, None, {})
    /\ UNCHANGED <<pc, initFn, ImageSchema, nInstances, lastObj, session, engVer,
                   engFields, fetches, first, arr, row, view>>
    /\ UNCHANGED threadVars

\* ImageSchema.readImages(path)
ReadImages(path) ==
    /\ pc = "loaded"
    /\ LET r == readImages(path) IN
       last' = Call("readImages", path, r.err, r.ret, {})
    /\ UNCHANGED <<pc, initFn, ImageSchema, nInstances, lastObj, session, engVer,
                   engFields, fetches, first, bufs, arr, row, view, nWrites>>
    /\ UNCHANGED threadVars

(***************************************************************************)
(* The engine session comes and goes under the client's control.           *)
(***************************************************************************)
StartSession(ver) ==
    /\ pc = "loaded"
    /\ ~session
    /\ session' = TRUE
    /\ engVer' = ver
    /\ last' = Call("startSession", "", NoErr, None, {})
    /\ UNCHANGED <<pc, initFn, ImageSchema, nInstances, lastObj, engFields,
                   fetches, first, bufs, arr, row, view, nWrites>>
    /\ UNCHANGED threadVars

StopSession ==
    /\ pc = "loaded"
    /\ session
    /\ session' = FALSE
    /\ last' = Call("stopSession", "", NoErr, None, {})
    /\ UNCHANGED <<pc, initFn, ImageSchema, nInstances, lastObj, engVer,
                   engFields, fetches, first, bufs, arr, row, view, nWrites>>
    /\ UNCHANGED threadVars

(***************************************************************************)
(* Sequential specifications.                                              *)
(***************************************************************************)
Threads == 1..NThreads

InitCommon ==
    /\ pc = "l186"
    /\ initFn = "__init__"
    /\ ImageSchema = NoInstance
    /\ nInstances = 0
    /\ lastObj = None
    /\ session = FALSE
    /\ engVer \in EngineVersions
    /\ fetches = [f \in Fields |-> 0]
    /\ first = [f \in Fields |-> None]
    /\ bufs = [b \in {ArrBuf, RowBuf} |-> <<>>]
    /\ arr = None
    /\ row = None
    /\ view = None
    /\ nWrites = 0
    /\ last = Call("import", "", NoErr, None, {})
    /\ tpc = [t \in Threads |-> "idle"]
    /\ tfield = [t \in Threads |-> "_imageSchema"]
    /\ tlocal = [t \in Threads |-> None]
    /\ tret = [t \in Threads |-> None]

\* the engine reports the field names in schema order
Init == InitCommon /\ engFields = SchemaOrder

\* the engine may report the field names in another order
InitAnyOrder == InitCommon /\ engFields \in FieldOrders

Next ==
    \/ Load186
    \/ Load192
    \/ NewInstance
    \/ \E f \in Fields : ReadProperty(f)
    \/ \E shape \in ApiShapes : NewArray(shape, 250)
    \/ \E origin \in Origins : ToImage(origin)
    \/ ToNDArray
    \/ \E path \in Paths : ReadImages(path)
    \/ \E ver \in EngineVersions : StartSession(ver)
    \/ StopSession

Spec == Init /\ [][Next]_vars

SpecAnyOrder == InitAnyOrder /\ [][Next]_vars

(***************************************************************************)
(* The conversions on their own: the module is imported, a session is      *)
(* active, and the caller converts arrays of every shape within the bounds *)
(* and writes to them in place.                                            *)
(***************************************************************************)
Loaded ==
    /\ pc = "loaded"
    /\ initFn = "_disallow_instance"
    /\ ImageSchema = [f \in Fields |-> None]
    /\ nInstances = 1
    /\ lastObj = [f \in Fields |-> None]
    /\ engVer \in EngineVersions
    /\ engFields = SchemaOrder
    /\ fetches = [f \in Fields |-> 0]
    /\ first = [f \in Fields |-> None]
    /\ bufs = [b \in {ArrBuf, RowBuf} |-> <<>>]
    /\ arr = None
    /\ row = None
    /\ view = None
    /\ nWrites = 0
    /\ last = Call("import", "", NoErr, None, {})
    /\ tpc = [t \in Threads |-> "idle"]
    /\ tfield = [t \in Threads |-> "_imageSchema"]
    /\ tlocal = [t \in Threads |-> None]
    /\ tret = [t \in Threads |-> None]

InitPixels == Loaded /\ session = TRUE

NextPixels ==
    \/ \E shape \in Shapes, base \in Bases : NewArray(shape, base)
    \/ \E origin \in Origins : ToImage(origin)
    \/ ToNDArray
    \/ \E p \in 1..(MaxDim * MaxDim * MaxChannels), v \in WriteValues : WriteArray(p, v)
    \/ \E p \in 1..(MaxDim * MaxDim * MaxChannels), v \in WriteValues : WriteRow(p, v)
    \/ \E i \in Dims, j \in Dims, k \in Channels, v \in WriteValues : WriteView(i, j, k, v)

SpecPixels == InitPixels /\ [][NextPixels]_vars

(***************************************************************************)
(* Concurrent readers.  Several threads read properties of the singleton   *)
(* with no lock; a thread can be preempted between the test of line 57,    *)
(* the engine call, the assignment and the return.  The session is active  *)
(* and the engine's answers do not change.                                 *)
(***************************************************************************)
\* a thread starts to read property f
TCall(t, f) ==
    /\ tpc[t] = "idle"
    /\ tpc' = [tpc EXCEPT ![t] = "check"]
    /\ tfield' = [tfield EXCEPT ![t] = f]
    /\ UNCHANGED <<tlocal, tret>>
    /\ UNCHANGED seqVars

\* `if self._x is None:`
TCheck(t) ==
    /\ tpc[t] = "check"
    /\ tpc' = [tpc EXCEPT ![t] =
                 IF IsUnset(ImageSchema, tfield[t]) THEN "fetch" ELSE "return"]
    /\ UNCHANGED <<tfield, tlocal, tret>>
    /\ UNCHANGED seqVars

\* `ctx = SparkContext._active_spark_context` and the engine call
TFetch(t) ==
    /\ tpc[t] = "fetch"
    /\ fetches[tfield[t]] < MaxFetches
    /\ LET ctx == ActiveSparkContext IN
       IF ctx = None
       THEN /\ tpc' = [tpc EXCEPT ![t] = "raised"]
            /\ UNCHANGED <<tlocal, fetches>>
       ELSE /\ tpc' = [tpc EXCEPT ![t] = "store"]
            /\ tlocal' = [tlocal EXCEPT ![t] = Fetch(ctx, tfield[t])]
            /\ fetches' = Count(fetches, {tfield[t]})
    /\ UNCHANGED <<tfield, tret>>
    /\ UNCHANGED <<pc, initFn, ImageSchema, nInstances, lastObj, session, engVer,
                   engFields, first, bufs, arr, row, view, nWrites, last>>

\* `self._x = ...`
TStore(t) ==
    /\ tpc[t] = "store"
    /\ ImageSchema' = Store(ImageSchema, tfield[t], tlocal[t])
    /\ tpc' = [tpc EXCEPT ![t] = "return"]
    /\ UNCHANGED <<tfield, tlocal, tret>>
    /\ UNCHANGED <<pc, initFn, nInstances, lastObj, session, engVer, engFields,
                   fetches, first, bufs, arr, row, view, nWrites, last>>

\* `return self._x`
TReturn(t) ==
    /\ tpc[t] = "return"
    /\ tret' = [tret EXCEPT ![t] = Return(ImageSchema, tfield[t], tlocal[t])]
    /\ tpc' = [tpc EXCEPT ![t] = "done"]
    /\ UNCHANGED <<tfield, tlocal>>
    /\ UNCHANGED seqVars

InitThreads == Loaded /\ session = TRUE

NextThreads ==
    \E t \in Threads :
        \/ \E f \in Fields : TCall(t, f)
        \/ TCheck(t)
        \/ TFetch(t)
        \/ TStore(t)
        \/ TReturn(t)

SpecThreads == InitThreads /\ [][NextThreads]_vars

(***************************************************************************)
(* Properties.  What a property expects is spelled out here on its own     *)
(* terms (the cast, the offsets, the encoding names), not through the      *)
(* operators that model the code.                                          *)
(***************************************************************************)
Cached(f) == ImageSchema[f] # None

\* C1: with the engine answering, each metadata field is fetched from the
\* engine at most once however often the property is read, and every read
\* that returns a value returns the value the first such read returned.
C1_FetchedOnceAndStable ==
    pc = "loaded" =>
        /\ \A f \in Fields : fetches[f] <= 1
        /\ (last.op = "read" /\ last.err = NoErr) =>
               /\ last.ret # None
               /\ last.ret = first[last.arg]

\* a read served from the cache, with no round trip, although a session is
\* active whose engine would now answer something else
C1_Witness ==
    /\ pc = "loaded"
    /\ last.op = "read" /\ last.arg = "_ocvTypes" /\ last.err = NoErr
    /\ last.tried = {}
    /\ fetches["_ocvTypes"] = 1
    /\ session
    /\ last.ret.d # JvmOcvTypes(engVer)

\* C2: once the module is imported, every construction of _ImageSchema
\* raises RuntimeError, no further instance ever exists, the rejected object
\* has none of the four fields set, and the singleton is left as it was.
C2_ConstructionDisallowed ==
    /\ [](pc = "loaded" =>
            /\ nInstances = 1
            /\ initFn = "_disallow_instance"
            /\ last.op = "construct" =>
                   /\ last.err = "RuntimeError"
                   /\ \A f \in Fields : lastObj[f] = Absent)
    /\ [][(pc = "loaded" /\ last'.op = "construct") =>
              ImageSchema' = ImageSchema]_vars

\* a rejected construction while the singleton holds cached metadata
C2_Witness ==
    /\ pc = "loaded"
    /\ last.op = "construct" /\ last.err = "RuntimeError"
    /\ Cached("_ocvTypes")
    /\ lastObj["_ocvTypes"] = Absent

\* C7: a cached field never returns to unset and never changes value under
\* any operation; a read whose fetch fails leaves the field unset; and a
\* read of an unset field always goes to the engine again.
C7_NoInvalidation ==
    [][pc = "loaded" =>
         \A f \in Fields :
            /\ ImageSchema'[f] = None \/ ImageSchema'[f].t \in {"StructType", "dict", "list", "str"}
            /\ Cached(f) => ImageSchema'[f] = ImageSchema[f]
            /\ (last'.op = "read" /\ last'.arg = f /\ last'.err # NoErr) =>
                   /\ last'.err = "AttributeError"
                   /\ ImageSchema'[f] = None
            /\ (~Cached(f) /\ last'.op = "read" /\ last'.arg = f) =>
                   f \in last'.tried]_vars

\* a failed read has left its field unset while another field is cached and
\* the engine has since been replaced by one that answers differently
C7_Witness ==
    /\ pc = "loaded"
    /\ last.op = "read" /\ last.err = "AttributeError"
    /\ ~Cached(last.arg)
    /\ Cached("_ocvTypes")
    /\ ImageSchema["_ocvTypes"].d # JvmOcvTypes(engVer)

\* the value an element takes when cast to unsigned 8-bit
Uint8(x) == x % 256

\* the bytes of the row's data field, and the elements of the caller's array
RowData == bufs[row.vals[6].b]
ArrData == bufs[arr.buf]

\* C3: with the metadata available, converting a 3-d array with 1, 3 or 4
\* channels to a row and the row back to an array succeeds, keeps the shape, and element (i, j, k) of the result is
\* the input's element (i, j, k) cast to unsigned 8-bit, stored in the row's
\* data at offset i*w*c + j*c + k.
C3_RoundTrip ==
    /\ (last.op = "toImage" /\ Len(arr.shape) = 3 /\ arr.shape[3] \in {1, 3, 4}) =>
           (last.err = NoErr /\ row = last.ret /\ row # None)
    /\ last.op = "toNDArray" => (last.err = NoErr /\ view = last.ret /\ view # None)
    /\ (view # None /\ nWrites = 0) =>
        LET h == arr.shape[1]
            w == arr.shape[2]
            c == arr.shape[3]
        IN /\ Len(arr.shape) = 3
           /\ c \in {1, 3, 4}
           /\ view.shape = <<h, w, c>>
           /\ Len(RowData) = h * w * c
           /\ \A i \in 0..(h - 1), j \in 0..(w - 1), k \in 0..(c - 1) :
                 /\ At(bufs, view, i, j, k) = Uint8(At(bufs, arr, i, j, k))
                 /\ RowData[i * w * c + j * c + k + 1] = At(bufs, view, i, j, k)

\* a round trip of a 2 x 1 x 3 array whose first element is negative
C3_Witness ==
    /\ view # None /\ nWrites = 0
    /\ last.op = "toNDArray" /\ last.err = NoErr
    /\ arr.shape = <<2, 1, 3>>
    /\ At(bufs, arr, 0, 0, 0) < 0
    /\ At(bufs, view, 1, 0, 2) = 4

\* the encoding name the claim assigns to a channel count
EncodingName(c) ==
    CASE c = 1 -> "CV_8UC1" [] c = 3 -> "CV_8UC3" [] c = 4 -> "CV_8UC4"

\* C4 as stated: for a 3-d array, 1, 3 and 4 channels give the row the mode
\* of CV_8UC1, CV_8UC3, CV_8UC4, and every other channel count fails with
\* "Invalid number of channels" and returns no row.
C4_AsStated ==
    (pc = "loaded" /\ last.op = "toImage" /\ Len(arr.shape) = 3) =>
        LET c == arr.shape[3] IN
        IF c \in {1, 3, 4}
        THEN last.ret # None =>
                 last.ret.vals[5] = PyInt(ImageSchema["_ocvTypes"].d[EncodingName(c)])
        ELSE /\ last.err = "ValueError: Invalid number of channels"
             /\ last.ret = None

\* C4, amended: the encoding map is read before the channel count is
\* examined.  When the map is available (cached, or fetched by this call)
\* the channel count decides as stated, a row being returned unless the
\* field names cannot be fetched; when it is not, the call fails with the
\* error of the missing session for every channel count.
C4_ModeWhenMapAvailable ==
    (pc = "loaded" /\ last.op = "toImage" /\ Len(arr.shape) = 3) =>
        LET c == arr.shape[3] IN
        IF ~Cached("_ocvTypes")
        THEN /\ ~session
             /\ last.err = "AttributeError"
             /\ last.ret = None
        ELSE IF c \in {1, 3, 4}
        THEN \/ /\ last.err = NoErr
                /\ last.ret.vals[5] =
                       PyInt(ImageSchema["_ocvTypes"].d[EncodingName(c)])
             \/ /\ last.err = "AttributeError"
                /\ last.ret = None
                /\ ~session
                /\ ~Cached("_imageFields")
        ELSE /\ last.err = "ValueError: Invalid number of channels"
             /\ last.ret = None

\* a 4-channel array converted with the cached map while no session is
\* active and the engine last seen would answer other codes
C4_Witness ==
    /\ pc = "loaded"
    /\ last.op = "toImage" /\ last.err = NoErr
    /\ arr.shape[3] = 4
    /\ last.ret.vals[5] = PyInt(ImageSchema["_ocvTypes"].d["CV_8UC4"])
    /\ ImageSchema["_ocvTypes"].d # JvmOcvTypes(engVer)

\* C5: toImage rejects every array that is not 3-dimensional with "Invalid
\* array shape" before anything else: no row is returned, no engine round
\* trip is attempted, and the singleton and the caller's row are untouched.
C5_ShapeCheckedFirst ==
    /\ [](pc = "loaded" /\ last.op = "toImage" /\ Len(arr.shape) # 3 =>
            /\ last.err = "ValueError: Invalid array shape"
            /\ last.ret = None
            /\ last.tried = {})
    /\ [][(pc = "loaded" /\ last'.op = "toImage" /\ Len(arr'.shape) # 3) =>
              /\ ImageSchema' = ImageSchema
              /\ fetches' = fetches
              /\ row' = row
              /\ bufs' = bufs]_vars

\* a 4-d array rejected while nothing is cached and no session is active
C5_Witness ==
    /\ pc = "loaded"
    /\ last.op = "toImage"
    /\ last.err = "ValueError: Invalid array shape"
    /\ Len(arr.shape) = 4
    /\ ~session
    /\ \A f \in Fields : ~Cached(f)

\* the value the row gives for a field name, as Row.__getattr__ finds it
Named(r, name) == RowGet(r, name)

\* the six values of the row toImage builds, in schema order
ExpectedValues(r) ==
    <<PyStr(last.arg), PyInt(arr.shape[1]), PyInt(arr.shape[2]),
      PyInt(arr.shape[3]), r.vals[5], PyBytes(RowBuf)>>

\* C6 as stated: whatever order the engine reports the six names in, the
\* row's fields are origin, height, width, nChannels, mode, data in that
\* order and each name gives its own value.
C6_AsStated ==
    (pc = "loaded" /\ last.op = "toImage" /\ last.err = NoErr) =>
        /\ last.ret.fields = SchemaOrder
        /\ \A n \in 1..6 :
              Named(last.ret, SchemaOrder[n]) = ExpectedValues(last.ret)[n]

\* C6, amended: the row's values are always origin, height, width,
\* nChannels, mode, data by position; the names are those of the cached
\* field-name list, attached position by position; so each name gives its
\* own value when that list is in schema order.
C6_ValuesByPosition ==
    (pc = "loaded" /\ last.op = "toImage" /\ last.err = NoErr) =>
        /\ last.ret.vals = ExpectedValues(last.ret)
        /\ last.ret.vals[5].t = "int"
        /\ last.ret.fields = ImageSchema["_imageFields"].l
        /\ ImageSchema["_imageFields"].l = SchemaOrder =>
              \A n \in 1..6 :
                 Named(last.ret, SchemaOrder[n]) = ExpectedValues(last.ret)[n]

\* a row built while the engine reports the names in alphabetical order:
\* the values are in schema order and the name "width" gives the data
C6_Witness ==
    /\ pc = "loaded"
    /\ last.op = "toImage" /\ last.err = NoErr
    /\ last.ret.fields = AlphabeticalOrder
    /\ last.ret.vals[3] = PyInt(MaxDim)
    /\ Named(last.ret, "width") = PyBytes(RowBuf)

\* C8 as stated: with no session active, a read of any metadata property
\* and either conversion ends in the error of the missing session.
C8_AsStated ==
    (pc = "loaded" /\ ~session /\ last.op \in {"read", "toImage", "toNDArray"}) =>
        last.err = "AttributeError"

\* C8, amended: with no session active, exactly the calls that need an
\* engine round trip end in the error of the missing session (raised where
\* the absent context is dereferenced, not by a check of the component's
\* own): a read of a property not yet cached, and toImage of a 3-d array
\* when the encoding map is not cached or, for 1, 3 or 4 channels, the field
\* names are not.  A read of a cached property returns the cached value,
\* and toNDArray never goes to the engine and returns its array.
C8_NoSessionOnlyWhenFetching ==
    (pc = "loaded" /\ ~session) =>
        /\ last.op = "read" =>
              /\ last.err = "AttributeError" <=> ~Cached(last.arg)
              /\ last.err # "AttributeError" =>
                     (last.err = NoErr /\ last.ret = ImageSchema[last.arg]
                      /\ last.tried = {})
        /\ last.op = "toNDArray" =>
              (last.err = NoErr /\ last.ret # None /\ last.tried = {})
        /\ last.op = "toImage" =>
              (last.err = "AttributeError" <=>
                   /\ Len(arr.shape) = 3
                   /\ \/ ~Cached("_ocvTypes")
                      \/ arr.shape[3] \in {1, 3, 4} /\ ~Cached("_imageFields"))

\* toNDArray has returned an array although no session is active
C8_Witness ==
    /\ pc = "loaded"
    /\ ~session
    /\ last.op = "toNDArray" /\ last.err = NoErr
    /\ view # None

\* C9: the row toImage returns has its own copy of the bytes: a later write
\* to the input array leaves the row's data as it was, and a later write to
\* the row's data, directly or through the array toNDArray returned, leaves
\* the input array as it was.
C9_RowOwnsItsBytes ==
    [][(row # None /\ row' = row /\ arr' = arr) =>
           /\ last'.op = "writeArray" => RowData' = RowData
           /\ last'.op \in {"writeRow", "writeView"} => ArrData' = ArrData
           /\ ~(ArrData' # ArrData /\ RowData' # RowData)]_vars

\* a write through the array toNDArray returned has reached the row's last
\* byte and the input array still holds its own last element
C9_Witness ==
    /\ row # None /\ view # None
    /\ last.op = "writeView"
    /\ Len(RowData) = 6
    /\ RowData[6] = 100
    /\ ArrData[6] # 100

\* what the engine answers for a field while the session lasts
EngineAnswer(f) ==
    CASE f = "_imageSchema" -> _parse_datatype_json_string(JvmImageSchemaJson)
      [] f = "_ocvTypes" -> PyDict(JvmOcvTypes(engVer))
      [] f = "_imageFields" -> PyList(engFields)
      [] f = "_undefinedImageType" -> PyStr(JvmUndefinedImageType)

\* C10: when threads read properties concurrently with no lock and the
\* engine's answer is fixed, then under every interleaving no read fails,
\* every finished read has returned the engine's value, never the unset
\* marker, and once all threads have finished each field read is cached
\* with that value.
C10_RacingReadsAgree ==
    /\ \A t \in Threads :
          /\ tpc[t] # "raised"
          /\ tpc[t] = "done" =>
                 (tret[t] # None /\ tret[t] = EngineAnswer(tfield[t]))
    /\ (\A t \in Threads : tpc[t] = "done") =>
           \A t \in Threads : ImageSchema[tfield[t]] = EngineAnswer(tfield[t])

\* all threads read the same property, every one of them made its own
\* engine round trip, and all have finished
C10_Witness ==
    /\ \A t \in Threads : tpc[t] = "done" /\ tfield[t] = "_imageFields"
    /\ fetches["_imageFields"] = NThreads

====
